---- MODULE Spec2Model ----
(***************************************************************************)
(* A model of bytesearch.py: the PDFSearch object shared by the curses     *)
(* interaction loop (display_interface) and the search_worker threads it   *)
(* spawns, and the span construction done by process_results.              *)
(*                                                                         *)
(* Spec        the interaction loop interleaved with the worker threads.   *)
(* SpecParser  process_results' parsing of one output line, over bounded   *)
(*             texts and queries.                                          *)
(***************************************************************************)
EXTENDS Integers, Sequences, FiniteSets, TLC

\* ------------------------------------------------------------------ sizes
\* BATCH_SIZE (10 in the source) and MAX_RESULTS (500 in the source) keep
\* their roles and are scaled down so that the state space is finite and the
\* cap is reached.
BATCH_SIZE == 2
MAX_RESULTS == 2

\* Bounds of the model.
MaxFiles == 3          \* most PDF files a directory listing returns
MaxLinesPerFile == 1   \* most matching lines pdfgrep reports for one file
MaxSearches == 2       \* most start_search calls in one run
MaxTyped == 1          \* longest query typed into the search bar
VisibleLines == 2      \* visible_lines = height - 5 of the terminal
MaxLineLen == 3        \* longest matched text of the parser specification
MaxQueryLen == 2       \* longest query of the parser specification

Workers == 1..MaxSearches
None == 0

VARIABLES
    \* PDFSearch fields
    results,          \* self.results: sequence of records
    lock,             \* self.lock: 0 when free, else the worker holding it
    queue,            \* self.queue: number of tokens in it
    stop_event,       \* self.stop_event
    processed_files,  \* self.processed_files
    total_files,      \* self.total_files (file_paths has the same files)
    \* display_interface
    pc,               \* where the interaction loop is
    search_term,      \* the query buffer
    current_line,     \* the selected index
    files,            \* start_search's local `files` (their number), 0 outside it
    open_ret,         \* what the open_result call being handled returned
    launched,         \* viewer processes started by the open_result call being handled
    session,          \* number of start_search calls so far
    inflight,         \* the workers that had a batch in flight when the last one began
    \* search_worker threads, one per start_search call
    wpc,              \* where each worker is
    wfiles,           \* its `files` argument (their number)
    wi,               \* its loop index i (1-based start of the batch)
    wlines,           \* process_results: the lines of raw_output still to do
    wtmp,             \* the value read by processed_files += len(batch)
    wpushed,          \* whether its current batch has put a token in the queue
    \* process_results on one line (SpecParser)
    ptext,            \* match.group(3), as the tool emitted it
    pquery,           \* search_term
    pparts,           \* the parts stored for the record
    pdone             \* whether the line has been parsed

store == <<results, lock, queue, stop_event, processed_files, total_files>>
ui == <<pc, search_term, current_line, files, open_ret, launched, session, inflight>>
workers == <<wpc, wfiles, wi, wlines, wtmp, wpushed>>
parser == <<ptext, pquery, pparts, pdone>>
vars == <<store, ui, workers, parser>>

\* ------------------------------------------------------------ helpers
Min(a, b) == IF a < b THEN a ELSE b
Max(a, b) == IF a > b THEN a ELSE b

\* self.file_paths: basename -> full path, of the files last enumerated
file_paths == 1..total_files

\* files[i:i+BATCH_SIZE] of a list of n files (1-based i)
Batch(n, i) == i..Min(n, i + BATCH_SIZE - 1)

Init ==
    /\ results = <<>>
    /\ lock = 0
    /\ queue = 0
    /\ stop_event = FALSE
    /\ processed_files = 0
    /\ total_files = 0
    /\ pc = "input"
    /\ search_term = <<>>
    /\ current_line = 0
    /\ files = 0
    /\ open_ret = "none"
    /\ launched = 0
    /\ session = 0
    /\ inflight = {}
    /\ wpc = [w \in Workers |-> "idle"]
    /\ wfiles = [w \in Workers |-> 0]
    /\ wi = [w \in Workers |-> 1]
    /\ wlines = [w \in Workers |-> <<>>]
    /\ wtmp = [w \in Workers |-> 0]
    /\ wpushed = [w \in Workers |-> FALSE]
    /\ ptext = <<>>
    /\ pquery = <<>>
    /\ pparts = <<>>
    /\ pdone = FALSE

\* ------------------------------------------------------ search input loop
\* The printable keys of the model: a letter, and q (a character here).
Chars == {"a", "q"}

\* line 201-202: a printable character is appended to the buffer
InputChar(c) ==
    /\ pc = "input"
    /\ Len(search_term) < MaxTyped
    /\ search_term' = Append(search_term, c)
    /\ UNCHANGED <<store, pc, current_line, files, open_ret, launched, session, inflight, workers, parser>>

\* line 199-200: search_term[:-1]
InputBackspace ==
    /\ pc = "input"
    /\ search_term' = SubSeq(search_term, 1, Len(search_term) - 1)
    /\ UNCHANGED <<store, pc, current_line, files, open_ret, launched, session, inflight, workers, parser>>

\* line 196-198
InputEsc ==
    /\ pc = "input"
    /\ search_term' = <<>>
    /\ UNCHANGED <<store, pc, current_line, files, open_ret, launched, session, inflight, workers, parser>>

\* StartsSearch without the test of line 204
StartsSearchAlways(term) == TRUE

\* line 204: `if not search_term: continue`
StartsSearch(term) == term # <<>>

\* line 194-195, 204-208: Enter leaves the input loop; an empty buffer goes
\* back to the prompt, any other goes on to stop_search and start_search.
InputEnter ==
    /\ pc = "input"
    /\ IF StartsSearch(search_term)
       THEN /\ session < MaxSearches
            /\ pc' = "stop"
       ELSE pc' = "input"
    /\ UNCHANGED <<store, search_term, current_line, files, open_ret, launched, session, inflight, workers, parser>>

\* line 208, 155-157: stop_search()
StopSearch ==
    /\ pc = "stop"
    /\ stop_event' = TRUE
    /\ pc' = "s_results"
    /\ UNCHANGED <<results, lock, queue, processed_files, total_files>>
    /\ UNCHANGED <<search_term, current_line, files, open_ret, launched, session, inflight, workers, parser>>

\* Worker w is between the start of a pdfgrep run and the end of the
\* process_results call on its output (line 74-77).
InFlight(w) == wpc[w] \in {"run", "parse", "append"}

\* line 143: self.results = []  (the start of a session: `session` counts them)
StartResetResults ==
    /\ pc = "s_results"
    /\ results' = <<>>
    /\ session' = session + 1
    /\ inflight' = {w \in Workers : InFlight(w)}
    /\ pc' = "s_processed"
    /\ UNCHANGED <<lock, queue, stop_event, processed_files, total_files>>
    /\ UNCHANGED <<search_term, current_line, files, open_ret, launched, workers, parser>>

\* line 144: self.processed_files = 0
StartResetProcessed ==
    /\ pc = "s_processed"
    /\ processed_files' = 0
    /\ pc' = "s_flag"
    /\ UNCHANGED <<results, lock, queue, stop_event, total_files>>
    /\ UNCHANGED <<search_term, current_line, files, open_ret, launched, session, inflight, workers, parser>>

\* line 145: self.stop_event = False
StartResetFlag ==
    /\ pc = "s_flag"
    /\ stop_event' = FALSE
    /\ pc' = "s_enum"
    /\ UNCHANGED <<results, lock, queue, processed_files, total_files>>
    /\ UNCHANGED <<search_term, current_line, files, open_ret, launched, session, inflight, workers, parser>>

\* line 149-150, 209-212: what follows get_pdf_files returning n files
AfterEnumerate(n) ==
    IF n = 0
    THEN /\ pc' = "input"
         /\ search_term' = <<>>
    ELSE /\ pc' = "s_spawn"
         /\ search_term' = search_term

\* line 148, 50-60: the directory lists n PDF files
GetPdfFiles(n) ==
    /\ pc = "s_enum"
    /\ total_files' = n
    /\ files' = n
    /\ AfterEnumerate(n)
    /\ UNCHANGED <<results, lock, queue, stop_event, processed_files>>
    /\ UNCHANGED <<current_line, open_ret, launched, session, inflight, workers, parser>>

\* line 61-63: os.listdir raises; total_files and file_paths keep their values
GetPdfFilesError ==
    /\ pc = "s_enum"
    /\ files' = 0
    /\ AfterEnumerate(0)
    /\ UNCHANGED <<store, current_line, open_ret, launched, session, inflight, workers, parser>>

\* line 152-153, 215-219: the worker thread of this session is started and the
\* results loop entered with current_line = 0
StartSpawn ==
    /\ pc = "s_spawn"
    /\ wpc' = [wpc EXCEPT ![session] = "check"]
    /\ wfiles' = [wfiles EXCEPT ![session] = files]
    /\ wi' = [wi EXCEPT ![session] = 1]
    /\ files' = 0
    /\ current_line' = 0
    /\ pc' = "browsing"
    /\ UNCHANGED <<store, search_term, open_ret, launched, session, inflight, wlines, wtmp, wpushed, parser>>

\* --------------------------------------------------- results navigation
\* open_result without the os.path.exists test of line 122
open_result_NoExistsTest(result_index, ans) ==
    IF result_index < 0 \/ result_index >= Len(results)
    THEN "Invalid selection"
    ELSE IF results[result_index + 1].full_path = None
    THEN "No file path found"
    ELSE IF ans = "popen_fails"
    THEN "Error opening PDF"
    ELSE "Opened"

\* line 116-139: open_result(result_index) with the file system answering
\* `ans` ("missing": os.path.exists is false; "popen_fails": Popen raises;
\* "present": the viewer starts). result_index counts from 0.
open_result(result_index, ans) ==
    IF result_index < 0 \/ result_index >= Len(results)
    THEN "Invalid selection"
    ELSE IF results[result_index + 1].full_path = None
    THEN "No file path found"
    ELSE IF ans = "missing"
    THEN "File not found"
    ELSE IF ans = "popen_fails"
    THEN "Error opening PDF"
    ELSE "Opened"

\* line 252: the guard of the ENTER key
CanOpen == results # <<>> /\ 0 <= current_line /\ current_line < Len(results)

\* What the file system answers to one open_result call.
FsAnswers == {"missing", "present", "popen_fails"}

\* line 251-253: ENTER opens the selected result
BrowseEnterWith(ans) ==
    /\ pc = "browsing"
    /\ IF CanOpen
       THEN LET ret == open_result(current_line, ans) IN
              /\ open_ret' = ret
              /\ launched' = IF ret = "Opened" THEN launched + 1 ELSE launched
              /\ pc' = "opened"
       ELSE UNCHANGED <<pc, open_ret, launched>>
    /\ UNCHANGED <<store, search_term, current_line, files, session, inflight, workers, parser>>

BrowseEnter == \E ans \in FsAnswers : BrowseEnterWith(ans)

\* line 254-258: a failure's message is shown for two seconds; then the loop
\* goes on: the returned pair is dead and the viewer, detached, is on its own
BrowseAfterOpen ==
    /\ pc = "opened"
    /\ open_ret' = "none"
    /\ launched' = 0
    /\ pc' = "browsing"
    /\ UNCHANGED <<store, search_term, current_line, files, session, inflight, workers, parser>>

\* line 239-250: what a navigation key makes of current_line
NavTarget(key) ==
    CASE key = "h" -> 0
      [] key = "e" -> Len(results) - 1
      [] key = "UP" -> IF current_line > 0 THEN current_line - 1 ELSE current_line
      [] key = "DOWN" -> IF current_line < Len(results) - 1
                         THEN current_line + 1 ELSE current_line
      [] key = "PPAGE" -> Max(0, current_line - VisibleLines)
      [] key = "NPAGE" -> Min(Len(results) - 1, current_line + VisibleLines)

NavKeys == {"h", "e", "UP", "DOWN", "PPAGE", "NPAGE"}

BrowseNav(key) ==
    /\ pc = "browsing"
    /\ current_line' = NavTarget(key)
    /\ UNCHANGED <<store, pc, search_term, files, open_ret, launched, session, inflight, workers, parser>>

\* line 234-235, 173-176: ESC leaves the results loop for a new, empty prompt
BrowseEsc ==
    /\ pc = "browsing"
    /\ pc' = "input"
    /\ search_term' = <<>>
    /\ UNCHANGED <<store, current_line, files, open_ret, launched, session, inflight, workers, parser>>

\* BrowseQuit without the call of stop_search()
BrowseQuitNoStop ==
    /\ pc = "browsing"
    /\ pc' = "terminated"
    /\ UNCHANGED store
    /\ UNCHANGED <<search_term, current_line, files, open_ret, launched, session, inflight, workers, parser>>

\* line 236-238: q or Q calls stop_search() and returns
BrowseQuit ==
    /\ pc = "browsing"
    /\ stop_event' = TRUE
    /\ pc' = "terminated"
    /\ UNCHANGED <<results, lock, queue, processed_files, total_files>>
    /\ UNCHANGED <<search_term, current_line, files, open_ret, launched, session, inflight, workers, parser>>

\* line 225-229: the display is redrawn (it only reads) and the queue drained
Refresh ==
    /\ pc = "browsing"
    /\ queue' = 0
    /\ UNCHANGED <<results, lock, stop_event, processed_files, total_files, ui, workers, parser>>

\* line 283-284: the slice of the records that display_results draws is
\* results[start_idx:end_idx] (indices from 0; % is Python's, never negative)
start_idx == Max(0, current_line - (current_line % VisibleLines))

end_idx == Min(Len(results), start_idx + VisibleLines)

\* line 271-275: the status line reads "Complete!" when stop_event is set
ShowsComplete == stop_event

\* ------------------------------------------------------- search_worker
\* The output lines pdfgrep prints for file f when k lines of it match; a line
\* is <<file, line number>>.
FileLines(f, k) == [j \in 1..k |-> <<f, j>>]

\* Every stdout pdfgrep can produce for the files lo..hi, given in that order.
RECURSIVE Outputs(_, _)
Outputs(lo, hi) ==
    IF lo > hi THEN {<<>>}
    ELSE {FileLines(lo, k) \o rest : k \in 0..MaxLinesPerFile, rest \in Outputs(lo + 1, hi)}

\* The threads live as long as the process: daemon threads end with it.
Alive(w) == pc # "terminated" /\ wpc[w] # "idle"

\* line 67-69: the head of the loop over the batches, and the stop_event test;
\* a thread that leaves the loop ends, and its locals with it
WCheck(w) ==
    /\ Alive(w)
    /\ wpc[w] = "check"
    /\ IF wi[w] > wfiles[w] \/ stop_event
       THEN /\ wpc' = [wpc EXCEPT ![w] = "done"]
            /\ wfiles' = [wfiles EXCEPT ![w] = 0]
            /\ wi' = [wi EXCEPT ![w] = 1]
       ELSE /\ wpc' = [wpc EXCEPT ![w] = "run"]
            /\ UNCHANGED <<wfiles, wi>>
    /\ UNCHANGED <<store, ui, wlines, wtmp, wpushed, parser>>

\* line 71-77: subprocess.run returns; stdout is `out`. No output, or a
\* nonzero return code, skips process_results.
WRun(w) ==
    /\ Alive(w)
    /\ wpc[w] = "run"
    /\ \E out \in Outputs(wi[w], Min(wfiles[w], wi[w] + BATCH_SIZE - 1)) :
         /\ wlines' = [wlines EXCEPT ![w] = out]
         /\ wpc' = [wpc EXCEPT ![w] = IF out = <<>> THEN "inc" ELSE "parse"]
    /\ UNCHANGED <<store, ui, wfiles, wi, wtmp, wpushed, parser>>

\* WRunRaises with an except clause that ends the loop instead of continuing
WRunRaisesAborts(w) ==
    /\ Alive(w)
    /\ wpc[w] = "run"
    /\ wi' = [wi EXCEPT ![w] = 1]
    /\ wfiles' = [wfiles EXCEPT ![w] = 0]
    /\ wpc' = [wpc EXCEPT ![w] = "done"]
    /\ UNCHANGED <<store, ui, wlines, wtmp, wpushed, parser>>

\* line 81-83: subprocess.run raises (the timeout, a missing pdfgrep): the except
\* clause continues with the next batch
WRunRaises(w) ==
    /\ Alive(w)
    /\ wpc[w] = "run"
    /\ wi' = [wi EXCEPT ![w] = wi[w] + BATCH_SIZE]
    /\ wpc' = [wpc EXCEPT ![w] = "check"]
    /\ UNCHANGED <<store, ui, wfiles, wlines, wtmp, wpushed, parser>>

\* line 92: the capacity test of process_results, made without the lock
HasRoom == Len(results) < MAX_RESULTS

\* line 90-92: the next line of raw_output; it is dropped when the store is full
WParse(w) ==
    /\ Alive(w)
    /\ wpc[w] = "parse"
    /\ IF wlines[w] = <<>>
       THEN /\ wpc' = [wpc EXCEPT ![w] = "inc"]
            /\ wlines' = wlines
       ELSE IF HasRoom
       THEN /\ wpc' = [wpc EXCEPT ![w] = "append"]
            /\ wlines' = wlines
       ELSE /\ wpc' = wpc
            /\ wlines' = [wlines EXCEPT ![w] = Tail(wlines[w])]
    /\ UNCHANGED <<store, ui, wfiles, wi, wtmp, wpushed, parser>>

\* line 106-111: the record made of a line by worker w (sess is not a field of
\* the program's record: it names the session whose worker wrote it; the parts
\* are the subject of SpecParser)
Record(w, line) ==
    [sess |-> w, filename |-> line[1], line_num |-> line[2],
     full_path |-> IF line[1] \in file_paths THEN line[1] ELSE None]

\* WAppend without the queue.put(True) of line 112
WAppendNoToken(w) ==
    /\ Alive(w)
    /\ wpc[w] = "append"
    /\ lock = 0
    /\ results' = Append(results, Record(w, Head(wlines[w])))
    /\ wlines' = [wlines EXCEPT ![w] = Tail(wlines[w])]
    /\ wpushed' = [wpushed EXCEPT ![w] = TRUE]
    /\ wpc' = [wpc EXCEPT ![w] = "parse"]
    /\ UNCHANGED <<lock, queue, stop_event, processed_files, total_files, ui, wfiles, wi, wtmp, parser>>

\* line 105-112: under the lock, the record is appended and a token queued
WAppend(w) ==
    /\ Alive(w)
    /\ wpc[w] = "append"
    /\ lock = 0
    /\ results' = Append(results, Record(w, Head(wlines[w])))
    /\ queue' = queue + 1
    /\ wlines' = [wlines EXCEPT ![w] = Tail(wlines[w])]
    /\ wpushed' = [wpushed EXCEPT ![w] = TRUE]
    /\ wpc' = [wpc EXCEPT ![w] = "parse"]
    /\ UNCHANGED <<lock, stop_event, processed_files, total_files, ui, wfiles, wi, wtmp, parser>>

\* line 79-80: the lock is taken and processed_files read ...
WIncRead(w) ==
    /\ Alive(w)
    /\ wpc[w] = "inc"
    /\ lock = 0
    /\ lock' = w
    /\ wtmp' = [wtmp EXCEPT ![w] = processed_files]
    /\ wpc' = [wpc EXCEPT ![w] = "inc_w"]
    /\ UNCHANGED <<results, queue, stop_event, processed_files, total_files, ui, wfiles, wi, wlines, wpushed, parser>>

\* ... and written back increased by len(batch), and the lock released
WIncWrite(w) ==
    /\ Alive(w)
    /\ wpc[w] = "inc_w"
    /\ processed_files' = wtmp[w] + Cardinality(Batch(wfiles[w], wi[w]))
    /\ lock' = 0
    /\ wtmp' = [wtmp EXCEPT ![w] = 0]
    /\ wpushed' = [wpushed EXCEPT ![w] = FALSE]
    /\ wi' = [wi EXCEPT ![w] = wi[w] + BATCH_SIZE]
    /\ wpc' = [wpc EXCEPT ![w] = "check"]
    /\ UNCHANGED <<results, queue, stop_event, total_files, ui, wfiles, wlines, parser>>

\* ------------------------------------------------------------ the program
\* Every step but the Enter that starts a search.
OtherSteps ==
    \/ \E c \in Chars : InputChar(c)
    \/ InputBackspace
    \/ InputEsc
    \/ StopSearch
    \/ StartResetResults
    \/ StartResetProcessed
    \/ StartResetFlag
    \/ \E n \in 0..MaxFiles : GetPdfFiles(n)
    \/ GetPdfFilesError
    \/ StartSpawn
    \/ BrowseEnter
    \/ BrowseAfterOpen
    \/ \E key \in NavKeys : BrowseNav(key)
    \/ BrowseEsc
    \/ BrowseQuit
    \/ Refresh
    \/ \E w \in Workers : WCheck(w)
    \/ \E w \in Workers : WRun(w)
    \/ \E w \in Workers : WRunRaises(w)
    \/ \E w \in Workers : WParse(w)
    \/ \E w \in Workers : WAppend(w)
    \/ \E w \in Workers : WIncRead(w)
    \/ \E w \in Workers : WIncWrite(w)

Next ==
    \/ InputEnter
    \/ OtherSteps

Spec == Init /\ [][Next]_vars

\* One step of the thread w (line 65-112).
WorkerStep(w) ==
    \/ WCheck(w)
    \/ WRun(w)
    \/ WRunRaises(w)
    \/ WParse(w)
    \/ WAppend(w)
    \/ WIncRead(w)
    \/ WIncWrite(w)

\* The program when the user starts one search at most (line 201-205 is reached
\* once), so that the session is never superseded.
NextOne ==
    \/ session = 0 /\ InputEnter
    \/ OtherSteps

\* A started thread keeps being scheduled, subprocess.run returns or raises
\* within its 30 s timeout (line 73), and a held lock is released; the user
\* is not obliged to press any key.
SpecOne == Init /\ [][NextOne]_vars /\ \A w \in Workers : WF_vars(WorkerStep(w))

\* ------------------------------------------- process_results on one line
\* The characters of the bounded texts and queries: a letter in both cases, a
\* character that is special in a regular expression, and a blank.
Alphabet == {"a", "A", ".", " "}

\* re.IGNORECASE compares characters without their case
Lower(c) == IF c = "A" THEN "a" ELSE c

RECURSIVE LStrip(_)
LStrip(t) == IF t # <<>> /\ Head(t) = " " THEN LStrip(Tail(t)) ELSE t

RECURSIVE RStrip(_)
RStrip(t) ==
    IF t # <<>> /\ t[Len(t)] = " " THEN RStrip(SubSeq(t, 1, Len(t) - 1)) ELSE t

\* line 95: match.group(3).strip()
Strip(t) == RStrip(LStrip(t))

\* MatchAt with the query compiled without re.escape: "." matches any character
MatchAtPattern(text, q, i) ==
    /\ i + Len(q) - 1 <= Len(text)
    /\ \A j \in 1..Len(q) : q[j] = "." \/ Lower(text[i + j - 1]) = Lower(q[j])

\* line 88: re.escape(search_term) under re.IGNORECASE matches at position i
\* when the characters of the query are there, whatever their case
MatchAt(text, q, i) ==
    /\ i + Len(q) - 1 <= Len(text)
    /\ \A j \in 1..Len(q) : Lower(text[i + j - 1]) = Lower(q[j])

\* line 99: the next match finditer yields at or after position `from`, 0 if none
FindFrom(text, q, from) ==
    LET hits == {i \in from..Len(text) : MatchAt(text, q, i)} IN
    IF hits = {} THEN 0 ELSE CHOOSE i \in hits : \A k \in hits : i <= k

\* PartsFrom without the append of line 103 (the text after the last match)
RECURSIVE PartsFromLostTail(_, _, _)
PartsFromLostTail(text, q, from) ==
    LET i == FindFrom(text, q, from) IN
    IF i = 0
    THEN <<>>
    ELSE << <<SubSeq(text, from, i - 1), FALSE>>,
            <<SubSeq(text, i, i + Len(q) - 1), TRUE>> >>
         \o PartsFromLostTail(text, q, i + Len(q))

\* line 97-103: the parts of text from position `from` (last_end + 1) on
RECURSIVE PartsFrom(_, _, _)
PartsFrom(text, q, from) ==
    LET i == FindFrom(text, q, from) IN
    IF i = 0
    THEN << <<SubSeq(text, from, Len(text)), FALSE>> >>
    ELSE << <<SubSeq(text, from, i - 1), FALSE>>,
            <<SubSeq(text, i, i + Len(q) - 1), TRUE>> >>
         \o PartsFrom(text, q, i + Len(q))

\* line 95-103: the parts stored for a line whose third field is `raw`
Parts(raw, q) == PartsFrom(Strip(raw), q, 1)

SeqsUpTo(S, n) == UNION {[1..k -> S] : k \in 0..n}

Texts == SeqsUpTo(Alphabet, MaxLineLen)
Queries == SeqsUpTo(Alphabet, MaxQueryLen) \ {<<>>}

ParseLine ==
    /\ ~pdone
    /\ pparts' = Parts(ptext, pquery)
    /\ pdone' = TRUE
    /\ UNCHANGED <<store, ui, workers, ptext, pquery>>

InitParser ==
    /\ results = <<>>
    /\ lock = 0
    /\ queue = 0
    /\ stop_event = FALSE
    /\ processed_files = 0
    /\ total_files = 0
    /\ pc = "input"
    /\ search_term = <<>>
    /\ current_line = 0
    /\ files = 0
    /\ open_ret = "none"
    /\ launched = 0
    /\ session = 0
    /\ inflight = {}
    /\ wpc = [w \in Workers |-> "idle"]
    /\ wfiles = [w \in Workers |-> 0]
    /\ wi = [w \in Workers |-> 1]
    /\ wlines = [w \in Workers |-> <<>>]
    /\ wtmp = [w \in Workers |-> 0]
    /\ wpushed = [w \in Workers |-> FALSE]
    /\ ptext \in Texts
    /\ pquery \in Queries
    /\ pparts = <<>>
    /\ pdone = FALSE

NextParser == ParseLine

SpecParser == InitParser /\ [][NextParser]_vars

\* ================================================================ claims
\* The interaction loop is in its results loop (Browsing mode).
InBrowse(p) == p \in {"browsing", "opened"}

\* The worker of the session last started has been spawned.
SessionRunning == session > 0 /\ wpc[session] # "idle"

\* C1: once a new session has been started, its result store holds no record
\* written by a worker of an earlier session that had a batch in flight when
\* the new session began.
C1_NoStaleRecords ==
    SessionRunning => \A i \in DOMAIN results : results[i].sess \notin inflight

\* C2: the result store never holds more than MAX_RESULTS records.
C2_WithinCap == Len(results) <= MAX_RESULTS

\* C3: while a session is browsed, processed_files never decreases and never
\* exceeds total_files.
C3_ProcessedMonotoneWithinTotal ==
    [][(InBrowse(pc) /\ InBrowse(pc'))
         => (processed_files' >= processed_files /\ processed_files' <= total_files')]_vars

\* C4: in Browsing mode the selected index is within [0, count-1], or is -1 or
\* the initial 0 when there is no record.
C4_SelectionInRange ==
    InBrowse(pc) =>
        IF Len(results) = 0
        THEN current_line \in {-1, 0}
        ELSE 0 <= current_line /\ current_line <= Len(results) - 1

\* The place of a record's line in the order of discovery: files are searched
\* in the order of the listing, and a file's lines come in their order.
Before(r1, r2) ==
    \/ r1.filename < r2.filename
    \/ r1.filename = r2.filename /\ r1.line_num < r2.line_num

\* C5: the records of a running session are in the order of discovery, each
\* output line once.
C5_DiscoveryOrder ==
    SessionRunning =>
        \A i, j \in DOMAIN results : i < j => Before(results[i], results[j])

\* C6: once the store is full, every further record of the session is dropped
\* and the stored records stay as they are.
C6_DropWhenFull ==
    [][(Len(results) >= MAX_RESULTS /\ session' = session) => results' = results]_vars

\* C7: Enter with an empty query buffer leaves the loop in Input mode and
\* touches neither the store nor any worker, and starts no session.
C7_EmptyEnterStartsNothing ==
    [][(InputEnter /\ search_term = <<>>)
         => (pc' = "input" /\ UNCHANGED <<store, workers, session>>)]_vars

\* C7's case: back at an empty prompt while a worker runs and records are stored
C7_Witness ==
    /\ pc = "input"
    /\ search_term = <<>>
    /\ results # <<>>
    /\ \E w \in Workers : wpc[w] \in {"run", "parse", "append"}

\* C8: ENTER on a selected record whose path is missing returns the failure
\* "File not found", launches no viewer, stays in Browsing mode and leaves the
\* selection, the store and the workers as they are.
C8_OpenMissingPath ==
    [][(/\ BrowseEnterWith("missing")
        /\ CanOpen
        /\ results[current_line + 1].full_path # None)
         => (/\ open_ret' = "File not found"
             /\ launched' = launched
             /\ InBrowse(pc')
             /\ UNCHANGED <<current_line, store, workers, session, inflight>>)]_vars

\* C8's case: the open action has failed on a missing file while a search runs
C8_Witness ==
    /\ pc = "opened"
    /\ open_ret = "File not found"
    /\ launched = 0
    /\ \E w \in Workers : wpc[w] = "run"

\* ---------------------------------------------------------- parser claims
RECURSIVE Concat(_)
Concat(parts) == IF parts = <<>> THEN <<>> ELSE Head(parts)[1] \o Concat(Tail(parts))

\* A text without its leading and trailing blanks, said directly.
Trimmed(t) ==
    LET inked == {i \in 1..Len(t) : t[i] # " "} IN
    IF inked = {} THEN <<>>
    ELSE SubSeq(t, CHOOSE i \in inked : \A k \in inked : i <= k,
                   CHOOSE i \in inked : \A k \in inked : i >= k)

\* Two characters that are the same letter, whatever their case.
SameLetter(c, d) == c = d \/ {c, d} = {"a", "A"}

\* The query occurs in t at position i, literally and whatever the case.
Occurs(t, q, i) ==
    /\ i >= 1
    /\ i + Len(q) - 1 <= Len(t)
    /\ \A j \in 1..Len(q) : SameLetter(t[i + j - 1], q[j])

RECURSIVE LenBefore(_, _)
LenBefore(parts, k) == IF k <= 1 THEN 0 ELSE Len(parts[k - 1][1]) + LenBefore(parts, k - 1)

\* The first and last position of the k-th stored part in the text.
PartStart(k) == 1 + LenBefore(pparts, k)
PartEnd(k) == LenBefore(pparts, k) + Len(pparts[k][1])
Highlighted == {k \in DOMAIN pparts : pparts[k][2]}

HighlightedAreOccurrences ==
    \A k \in Highlighted :
        /\ Len(pparts[k][1]) = Len(pquery)
        /\ Occurs(Trimmed(ptext), pquery, PartStart(k))

\* C10, as stated: every occurrence of the query in the stored text, those that
\* overlap another included, lies inside a highlighted part, and every
\* highlighted part is an occurrence.
C10_EveryOccurrenceHighlighted ==
    pdone =>
        /\ \A i \in 1..Len(Trimmed(ptext)) :
              Occurs(Trimmed(ptext), pquery, i) =>
                 \E k \in Highlighted :
                    PartStart(k) <= i /\ i + Len(pquery) - 1 <= PartEnd(k)
        /\ HighlightedAreOccurrences

\* C10, amended: every highlighted part is an occurrence, and every occurrence
\* either is a highlighted part or overlaps a highlighted part that starts
\* before it (the occurrences are taken from left to right, without overlap).
C10_LeftmostOccurrencesHighlighted ==
    pdone =>
        /\ \A i \in 1..Len(Trimmed(ptext)) :
              Occurs(Trimmed(ptext), pquery, i) =>
                 \E k \in Highlighted :
                    PartStart(k) <= i /\ i <= PartEnd(k)
        /\ HighlightedAreOccurrences

\* C10's case: a parsed line in which two occurrences of the query overlap
C10_Witness ==
    /\ pdone
    /\ Highlighted # {}
    /\ \E i, j \in 1..Len(Trimmed(ptext)) :
          /\ i < j /\ j < i + Len(pquery)
          /\ Occurs(Trimmed(ptext), pquery, i)
          /\ Occurs(Trimmed(ptext), pquery, j)

\* C11: a first session that runs to the end of its batches without being
\* cancelled (its worker has left the loop while stop_event has stayed False)
\* ends with processed_files equal to total_files, whether its pdfgrep runs
\* returned or raised.
C11_AllProcessedAtEnd ==
    (session = 1 /\ InBrowse(pc) /\ ~stop_event /\ wpc[1] = "done")
        => processed_files = total_files

\* C12: a pdfgrep run that raises does not end the worker: the worker goes on
\* with the next batch; the batches are attempted in order, each once (the
\* batch index only moves forward by BATCH_SIZE, and a batch is started only
\* inside the file list); a worker that saw no cancellation leaves the loop
\* only when the list is exhausted; and a started worker eventually ends (or
\* the process does).
C12_SkipsFailedBatchAndTerminates ==
    /\ [][\A w \in Workers :
            /\ wpc[w] = "run" => wpc'[w] \in {"run", "parse", "inc", "check"}
            /\ (wpc[w] = "run" /\ wpc'[w] = "check")
                 => (wi'[w] = wi[w] + BATCH_SIZE /\ wfiles'[w] = wfiles[w])
            /\ (wpc[w] \notin {"idle", "done"} /\ wpc'[w] # "done" /\ wi'[w] # wi[w])
                 => wi'[w] = wi[w] + BATCH_SIZE
            /\ (wpc[w] = "check" /\ wpc'[w] = "run") => wi[w] <= wfiles[w]
            /\ (wpc[w] = "check" /\ wpc'[w] = "done" /\ ~stop_event)
                 => wi[w] > wfiles[w]]_vars
    /\ \A w \in Workers :
         [](wpc[w] \notin {"idle", "done"} => <>(wpc[w] = "done" \/ pc = "terminated"))

\* The first batch of two raised, the second was run and counted, and the
\* worker ended by exhausting its list.
C12_Witness ==
    /\ session = 1 /\ ~stop_event /\ InBrowse(pc)
    /\ wpc[1] = "done"
    /\ total_files = BATCH_SIZE + 1
    /\ processed_files = 1

\* C13: every session is eventually marked complete: once its worker has left
\* the loop, by exhausting its batches or by seeing the cancellation, the flag
\* the renderer reads for "Complete!" eventually becomes true.
C13_EventuallyMarkedComplete ==
    \A w \in Workers : [](wpc[w] = "done" => <>ShowsComplete)

\* The worker of the session last started is still in its loop.
StillRunning == session > 0 /\ wpc[session] \notin {"idle", "done"}

\* C14: pressing ESC in the results loop while the search is still running
\* sets its cancellation flag and returns to the input loop.
C14_EscapeCancelsRunningSearch ==
    [][(BrowseEsc /\ StillRunning) => (stop_event' /\ pc' = "input")]_vars

\* C15: a worker whose session was cancelled by stop_search while it had a
\* pdfgrep run in flight (the one more invocation it is allowed) starts no
\* further pdfgrep run, whatever the interaction loop does afterwards.
C15_NoRunAfterCancelledBatch ==
    [][\A w \in inflight : wpc[w] = "check" => wpc'[w] # "run"]_vars

\* C16: every write of the shared store is made under its lock: while a thread
\* holds the lock (and keeps it over the step), no other thread changes the
\* record list, processed_files, total_files or the stop flag.
C16_StoreWrittenUnderLock ==
    [][(lock # 0 /\ lock' = lock)
         => UNCHANGED <<results, processed_files, total_files, stop_event>>]_vars

\* Worker w ends the attempt of a batch in this step (line 80, or line 83).
BatchEnds(w) == wpc[w] \notin {"idle", "done"} /\ wi'[w] = wi[w] + BATCH_SIZE

\* C17 as stated: when a worker ends the attempt of a batch, that batch has
\* pushed a token to the queue, whether or not it produced a match.
C17_TokenPerBatch ==
    [][\A w \in Workers : BatchEnds(w) => wpushed[w]]_vars

\* C17: a token is pushed to the queue exactly when a record is appended to
\* the store, one token for one record; a batch that appends no record ends
\* without having pushed one.
C17_TokenPerRecord ==
    [][/\ (queue' > queue) <=> (Len(results') > Len(results))
       /\ queue' > queue
            => (queue' = queue + 1 /\ SubSeq(results', 1, Len(results)) = results
                  /\ Len(results') = Len(results) + 1)
       /\ \A w \in Workers :
            (BatchEnds(w) /\ ~wpushed[w]) => queue' = queue]_vars

\* A session of two batches has ended with one record: one batch pushed the
\* one token that is in the queue, the other batch pushed none.
C17_Witness ==
    /\ pc = "browsing" /\ session = 1 /\ wpc[1] = "done"
    /\ total_files = BATCH_SIZE + 1 /\ processed_files = total_files
    /\ Len(results) = 1 /\ queue = 1

\* C18: in every frame drawn in the results loop with at least one record, the
\* selected index lies inside the window of records that is drawn.
C18_SelectionInRenderedWindow ==
    (pc = "browsing" /\ Len(results) >= 1)
        => (start_idx <= current_line /\ current_line < end_idx)

\* C19: the interaction loop ends only from the results loop, by a step that
\* leaves the stop flag set; no step taken in the input loop ends it, where a
\* typed q is one more character of the query.
C19_QuitOnlyFromBrowsing ==
    [][/\ (pc # "terminated" /\ pc' = "terminated")
            => (pc = "browsing" /\ stop_event')
       /\ pc = "input" => pc' \in {"input", "stop"}
       /\ (pc = "input" /\ search_term' # search_term) => pc' = "input"]_vars

\* The query typed was q, and q pressed in the results loop ended the program
\* while the worker of the search was still in its loop.
C19_Witness ==
    /\ pc = "terminated" /\ stop_event
    /\ search_term = <<"q">>
    /\ StillRunning

\* C20: every commit of a batch adds the size of the batch to the value
\* processed_files has at that moment, so that processed_files is the sum of
\* the batches committed since the last reset of start_search: a reset is
\* never overwritten by an increment computed from the value read before it.
C20_IncrementKeepsReset ==
    [][\A w \in Workers :
         (wpc[w] = "inc_w" /\ wpc'[w] = "check")
            => processed_files' = processed_files + Cardinality(Batch(wfiles[w], wi[w]))]_vars

====
